---- MODULE Spec2Model ----
(***************************************************************************)
(* A model of devflow's Workflow Engine (core/workflow_engine.py) running  *)
(* one issue against the session store the engine is constructed with:     *)
(* either no store at all (cli/commands/process.py:50) or the reference    *)
(* StateManager (core/state_manager.py), whose state file may already hold *)
(* a session when the process starts.  Further specifications over the     *)
(* same variables model the StateManager's state file across crashes       *)
(* (SpecStore), CI-failure detection (SpecCI), the Auto-Fix Engine's cycle *)
(* (SpecFix), the Continuous PR Monitor (SpecMonitor) and two workers that  *)
(* each hold a StateManager over one state file (SpecWorkers).  SpecLive   *)
(* and SpecFixLive add the fairness of a running call to Spec and SpecFix. *)
(***************************************************************************)
EXTENDS Integers, Sequences, FiniteSets, TLC

\* ------------------------------------------------------------------ bounds
MaxCalls == 2          \* ProcessIssue calls explored
MaxIterBound == 2      \* largest max_iterations explored (config allows 1..10)
MaxReviewers == 2      \* reviewers in the review fan-out
MaxRestarts == 1       \* process restarts explored

IssueNumber == 1

\* ------------------------------------------------------------- enumerations
\* WorkflowState: member name |-> value
WorkflowState ==
    [ PENDING |-> "pending", VALIDATING |-> "validating", VALIDATED |-> "validated",
      WORKTREE_CREATING |-> "worktree_creating", IMPLEMENTING |-> "implementing",
      IMPLEMENTED |-> "implemented", REVIEWING |-> "reviewing",
      NEEDS_FIXES |-> "needs_fixes", REVIEW_PASSED |-> "review_passed",
      FINALIZING |-> "finalizing", READY_FOR_HUMAN |-> "ready_for_human",
      COMPLETED |-> "completed", MERGED |-> "merged",
      VALIDATION_FAILED |-> "validation_failed",
      IMPLEMENTATION_FAILED |-> "implementation_failed",
      REVIEW_FAILED |-> "review_failed",
      MAX_ITERATIONS_REACHED |-> "max_iterations_reached",
      NEEDS_HUMAN_INTERVENTION |-> "needs_human_intervention" ]

StateNames == DOMAIN WorkflowState

\* WorkflowState(value): the member whose value is v
WorkflowStateOf(v) == CHOOSE n \in StateNames : WorkflowState[n] = v

\* agents.base.ReviewDecision: what a reviewer's response carries
AgentReviewDecision ==
    [ APPROVE |-> "approve", REQUEST_CHANGES |-> "request_changes",
      COMMENT |-> "comment", BLOCK |-> "block" ]

\* the enum of the same name with an APPROVE member (agents/base.py:44-50)
ReviewDecisionWithApprove ==
    [ APPROVE |-> "approve", REQUEST_CHANGES |-> "request_changes",
      COMMENT |-> "comment", BLOCK |-> "block" ]

\* the ReviewDecision the engine module imports: adapters.base.ReviewDecision
ReviewDecision ==
    [ APPROVED |-> "approved", REQUEST_CHANGES |-> "request_changes",
      COMMENT |-> "comment", PENDING |-> "pending" ]

ValidationResult == {"valid", "needs_clarification", "invalid", "needs_human"}
ImplementationResult == {"success", "partial", "failed", "needs_human"}

\* --------------------------------------------------------------- sessions
NoSession == [absent |-> TRUE]
NoPR == 0                \* pr_number None (the code tests it with "not")
NoneStr == "None"

BranchName(n) == IF n = 1 THEN "issue-1" ELSE "issue-n"
WorktreeDir(n) == IF n = 1 THEN "/tmp/devflow-worktree-1" ELSE "/tmp/devflow-worktree-n"

\* Path(s) and str(Path): the in-memory path object is kept apart from its text
PathOf(s) == <<"Path", s>>
StrOfPath(p) == p[2]

\* WorkflowSession(...) as built by _get_or_create_session
NewSession(maxIter) ==
    [ issue_number |-> IssueNumber, current_state |-> "PENDING",
      iteration_count |-> 0, max_iterations |-> maxIter,
      worktree_path |-> <<"None">>, branch_name |-> NoneStr, pr_number |-> NoPR,
      session_transcript |-> <<>> ]

\* WorkflowSession.to_dict
ToDict(s) ==
    [ issue_number |-> s.issue_number,
      current_state |-> WorkflowState[s.current_state],
      iteration_count |-> s.iteration_count,
      max_iterations |-> s.max_iterations,
      worktree_path |-> IF s.worktree_path = <<"None">> THEN NoneStr
                        ELSE StrOfPath(s.worktree_path),
      branch_name |-> s.branch_name,
      pr_number |-> s.pr_number,
      session_transcript |-> s.session_transcript ]

\* WorkflowSession.from_dict
FromDict(d) ==
    [ issue_number |-> d.issue_number,
      current_state |-> WorkflowStateOf(d.current_state),
      iteration_count |-> d.iteration_count,
      max_iterations |-> d.max_iterations,
      worktree_path |-> IF d.worktree_path = NoneStr THEN <<"None">>
                        ELSE PathOf(d.worktree_path),
      branch_name |-> d.branch_name,
      pr_number |-> d.pr_number,
      session_transcript |-> d.session_transcript ]

\* Sessions the state file can hold when the process starts: what an earlier
\* run persisted after a stage transition, or what _migrate_legacy_state took
\* over from the legacy pipeline (any state; _update_global_stats counts the
\* completed and failed ones), always with 0 <= iteration_count <= max.
PersistedStates ==
    {"PENDING", "VALIDATED", "IMPLEMENTING", "IMPLEMENTED", "NEEDS_FIXES",
     "REVIEW_PASSED", "READY_FOR_HUMAN", "COMPLETED", "MAX_ITERATIONS_REACHED"}

HasWorktree(st) == st \notin {"PENDING", "VALIDATED"}
MayHavePR(st) == st \notin {"PENDING", "VALIDATED", "IMPLEMENTING", "IMPLEMENTED"}

PersistedSession(st, mi, ic) ==
    ToDict([ issue_number |-> IssueNumber, current_state |-> st,
             iteration_count |-> ic, max_iterations |-> mi,
             worktree_path |-> IF HasWorktree(st) THEN PathOf(WorktreeDir(IssueNumber))
                               ELSE <<"None">>,
             branch_name |-> IF HasWorktree(st) THEN BranchName(IssueNumber) ELSE NoneStr,
             pr_number |-> IF MayHavePR(st) THEN 1 ELSE NoPR,
             session_transcript |-> <<>> ])

PersistedSessions ==
    { PersistedSession(c[1], c[2], c[3]) :
        c \in { t \in PersistedStates \X (1..MaxIterBound) \X (0..MaxIterBound) :
                  t[3] <= t[2] } }

VARIABLES
    storeKind,      \* "none" | "state_manager": the engine's state_manager argument
    configMaxIter,  \* config.workflows.implementation_max_iterations
    file,           \* the state file's record for the issue, or NoSession
    smWorkflows,    \* StateManager._state.workflows["issue-N"], or NoSession
    lockHeld,       \* StateManager._lock is held
    session,        \* the engine's WorkflowSession object, or NoSession
    pc,             \* "idle" | "loop" | "blocked"
    autoMode, dryRun,
    stages,         \* result['stages_completed'] of the call in progress
    result,         \* what the last ProcessIssue call returned
    calls, restarts,
    prCreated,      \* create_pull_request invocations on the platform
    platform,       \* labels and comments the engine has put on the issue
    origin,         \* how the call in progress got its session
    invoked,        \* handlers invoked by the call in progress, in order
    failedAt,       \* state whose handler failed in the last call, or "none"
    prevFailedAt,   \* failedAt as it was when the call in progress began
    lastEvent,      \* what the last loop iteration did
    lastReview,     \* the last review fan-out and its outcome
    implCalls,      \* implement_changes invocations made for the session so far
    validatorSays,  \* what the validation agent answers in the call in progress
    asked,          \* the last loop iteration called _confirm_continue
    fanOut          \* the reviewers of the call's review and how far it got

\* the state file on disk and the StateManager that is constructed over it
VARIABLES
    disk,           \* contents of the state file, its .tmp and its .json.backup
    smState,        \* StateManager._state, or NoState when no manager is alive
    spc,            \* "down" | "save_open" | "save_write" | "save_replace" |
                    \* "ready" | "blocked"
    prevFile,       \* the state file as it was when the write in progress began
    newDoc,         \* the document the write in progress is writing
    loadedFrom,     \* the state file as _load_state found it
    storeEvent,     \* what the last step of the store did
    boots           \* StateManager constructions so far

\* CI-failure detection applied to one failed job
VARIABLES
    ciFailure,      \* the failure dict: job name and log
    ciItems,        \* the FeedbackItems produced from it
    ciBy            \* "none" | "detector" | "parser": who produced ciItems

\* one AutoFixEngine
VARIABLES
    fixPc,          \* "idle" | "running": inside run_auto_fix_cycle or not
    fixMax,         \* max_iterations of the call in progress
    fixIter,        \* iterations of the loop begun by the call in progress
    fixResult,      \* the AutoFixResult the last call returned
    fixLast,        \* what the last iteration detected, applied and committed
    fixCalls,       \* run_auto_fix_cycle calls so far
    fixEnv          \* what the detectors and the fix groups of the last iteration did

\* one ContinuousPRMonitor
VARIABLES
    monitored,      \* monitored_prs: the MonitoringStatus values in key order
    mpc,            \* "idle" | "cycling": inside run_monitoring_cycle or not
    cycle,          \* number of the monitoring cycle in progress
    maxCyc,         \* max_cycles of the call in progress
    pending,        \* PRs the cycle in progress has still to process
    monEvent,       \* what the monitor's last step did
    starts, runs    \* start_monitoring and run_monitoring_cycle calls so far

\* two workers, each with a StateManager of its own over the same state file
VARIABLES
    shared,         \* the state file: its workflows and global_stats
    inst,           \* per worker: the _state of its StateManager
    wpc,            \* per worker: "down" | "saving" | "ready" | "blocked"
    saved,          \* per worker: the record it last passed to save_workflow_session
    reported,       \* per worker: what get_global_statistics last returned to it
    ops             \* per worker: save, delete and cleanup calls so far

engineVars == << storeKind, configMaxIter, file, smWorkflows, lockHeld, session, pc,
                 autoMode, dryRun, stages, result, calls, restarts, prCreated, platform,
                 origin, invoked, failedAt, prevFailedAt, lastEvent, lastReview,
                 implCalls, validatorSays, asked, fanOut >>

storeVars == << disk, smState, spc, prevFile, newDoc, loadedFrom, storeEvent, boots >>

\* everything the Workflow Engine's handlers never touch
ciVars == << ciFailure, ciItems, ciBy >>

fixVars == << fixPc, fixMax, fixIter, fixResult, fixLast, fixCalls, fixEnv >>

monVars == << monitored, mpc, cycle, maxCyc, pending, monEvent, starts, runs >>

workerVars == << shared, inst, wpc, saved, reported, ops >>

auxVars == << storeVars, ciVars, fixVars, monVars, workerVars >>

vars == << engineVars, auxVars >>

NoResult ==
    [ outcome |-> "none", success |-> FALSE, current_state |-> "none",
      error |-> "none", stages_completed |-> <<>> ]
NoReview ==
    [ ran |-> FALSE, responses |-> <<>>, merged |-> "none", next |-> "none" ]
NoFanOut ==
    [ ran |-> FALSE, outs |-> <<>>, reached |-> 0, returned |-> FALSE ]

\* a file that does not exist
Absent == [exists |-> FALSE, data |-> <<>>]

NoState == [version |-> "none", project_config |-> "none", workflows |-> "none"]

\* no StateManager has been constructed and the state directory is empty
StoreIdle ==
    /\ disk = [state |-> Absent, tmp |-> Absent, backup |-> Absent]
    /\ smState = NoState
    /\ spc = "down"
    /\ prevFile = Absent
    /\ newDoc = <<>>
    /\ loadedFrom = Absent
    /\ storeEvent = "none"
    /\ boots = 0

\* no failed job has been handed to CI-failure detection
CiIdle ==
    /\ ciFailure = [name |-> "build", log |-> <<>>]
    /\ ciItems = <<>>
    /\ ciBy = "none"

\* AutoFixResult(...)
AutoFixResult(success, fixes, files, message, validation, error) ==
    [ success |-> success, fixes_applied |-> fixes, files_modified |-> files,
      commit_message |-> message, validation_passed |-> validation,
      error_message |-> error ]

NoFixResult == AutoFixResult(FALSE, <<>>, <<>>, "none", FALSE, "not returned")

NoIteration ==
    [ ran |-> FALSE, feedback |-> <<>>, applied |-> NoFixResult, success |-> FALSE,
      committed |-> FALSE, pushed |-> FALSE, pushFailed |-> FALSE, returned |-> "none" ]

\* no detector and no fix group has run
NoFixEnv == [dets |-> <<>>, groups |-> <<>>]

\* no auto-fix cycle has been run
FixIdle ==
    /\ fixPc = "idle"
    /\ fixMax = 0 /\ fixIter = 0
    /\ fixResult = NoFixResult
    /\ fixLast = NoIteration
    /\ fixCalls = 0
    /\ fixEnv = NoFixEnv

NoMonEvent ==
    [ kind |-> "none", pr |-> 0, ci |-> "none", before |-> 0, delegated |-> FALSE,
      result |-> [status |-> "none"], removed |-> FALSE ]

\* ContinuousPRMonitor.__init__
MonIdle ==
    /\ monitored = <<>>
    /\ mpc = "idle"
    /\ cycle = 0 /\ maxCyc = 0
    /\ pending = <<>>
    /\ monEvent = NoMonEvent
    /\ starts = 0 /\ runs = 0

Workers == {1, 2}

\* the issues the workers process: worker w processes issue w
Issues == {1, 2}

\* no workflows entry under an issue's key
NoRecord == [current_state |-> "none", old |-> FALSE]

\* GlobalStatistics() with the defaults of its counters
GlobalStatistics ==
    [ total_workflows |-> 0, active_workflows |-> 0, completed_workflows |-> 0,
      failed_workflows |-> 0 ]

NoInstance == [workflows |-> "none", global_stats |-> "none"]

NoReport == [returned |-> FALSE]

\* no worker has constructed its StateManager, the state file holds no workflow
WorkersIdle ==
    /\ shared = [workflows |-> [i \in Issues |-> NoRecord], global_stats |-> GlobalStatistics]
    /\ inst = [w \in Workers |-> NoInstance]
    /\ wpc = [w \in Workers |-> "down"]
    /\ saved = [w \in Workers |-> NoRecord]
    /\ reported = [w \in Workers |-> NoReport]
    /\ ops = [w \in Workers |-> 0]

AuxIdle == StoreIdle /\ CiIdle /\ FixIdle /\ MonIdle /\ WorkersIdle

Init ==
    /\ AuxIdle
    /\ storeKind \in {"none", "state_manager"}
    /\ configMaxIter \in 1..MaxIterBound
    /\ file \in IF storeKind = "none" THEN {NoSession}
                ELSE {NoSession} \cup PersistedSessions
    /\ smWorkflows = file
    /\ lockHeld = FALSE
    /\ session = NoSession
    /\ pc = "idle"
    /\ autoMode = FALSE /\ dryRun = FALSE
    /\ stages = <<>>
    /\ result = NoResult
    /\ calls = 0 /\ restarts = 0
    /\ prCreated = IF file # NoSession /\ file.pr_number # NoPR THEN 1 ELSE 0
    /\ platform = [labelled |-> FALSE, commented |-> FALSE]
    /\ origin = "none"
    /\ invoked = <<>>
    /\ failedAt = "none" /\ prevFailedAt = "none"
    /\ lastEvent = "none"
    /\ lastReview = NoReview
    /\ implCalls = 0
    /\ validatorSays = "none"
    /\ asked = FALSE
    /\ fanOut = NoFanOut

\* ---------------------------------------------------------- session store
\* StateManager._lock is a threading.Lock: a thread that holds it cannot
\* take it again.
LockIsReentrant == FALSE

CanAcquire(held) == ~held \/ LockIsReentrant

\* state_manager.save_workflow_session(s), called by the engine when the
\* engine has a state manager: takes the lock, stores to_dict(s) in
\* _state.workflows, then calls _save_state, which takes the lock itself
\* before it writes the file.  blocked' tells whether the call returns.
SaveWorkflowSession(s) ==
    IF storeKind = "state_manager"
    THEN /\ CanAcquire(lockHeld)
         /\ smWorkflows' = ToDict(s)
         /\ IF CanAcquire(TRUE)
            THEN /\ file' = ToDict(s)
                 /\ lockHeld' = FALSE
            ELSE /\ file' = file
                 /\ lockHeld' = TRUE
    ELSE UNCHANGED << smWorkflows, file, lockHeld >>

SaveReturns == storeKind # "state_manager" \/ CanAcquire(TRUE)

\* get_workflow_session handing back the engine's live session object when
\* there is one, instead of deserialising what was saved
GetWorkflowSessionCached ==
    IF session # NoSession THEN session
    ELSE IF smWorkflows = NoSession THEN NoSession ELSE FromDict(smWorkflows)

\* state_manager.get_workflow_session(issue_number)
GetWorkflowSession ==
    IF smWorkflows = NoSession THEN NoSession ELSE FromDict(smWorkflows)

\* ------------------------------------------------------------ ProcessIssue
\* the states at which the stage loop stops by itself
LoopTerminalStates ==
    {"COMPLETED", "MERGED", "MAX_ITERATIONS_REACHED", "NEEDS_HUMAN_INTERVENTION"}

SuccessStates == {"COMPLETED", "MERGED", "READY_FOR_HUMAN"}

\* _execute_stage's dispatch table
StageHandlers ==
    [ PENDING |-> "_stage_validation", VALIDATED |-> "_stage_worktree_creation",
      IMPLEMENTING |-> "_stage_implementation", IMPLEMENTED |-> "_stage_review",
      NEEDS_FIXES |-> "_stage_fix_implementation",
      REVIEW_PASSED |-> "_stage_finalization" ]

\* the dict _execute_workflow returns
FinalResult(s, err, done) ==
    [ outcome |-> "returned",
      success |-> s.current_state \in SuccessStates,
      current_state |-> WorkflowState[s.current_state],
      error |-> err,
      stages_completed |-> done ]

\* process_issue up to the stage loop: _get_or_create_session
ProcessIssue(auto, dry, issueOk) ==
    /\ pc = "idle"
    /\ calls < MaxCalls
    /\ calls' = calls + 1
    /\ autoMode' = auto /\ dryRun' = dry
    /\ stages' = <<>> /\ invoked' = <<>>
    /\ prevFailedAt' = failedAt
    /\ failedAt' = "none"
    /\ lastEvent' = "process_issue"
    /\ validatorSays' = "none" /\ asked' = FALSE /\ fanOut' = NoFanOut
    /\ IF storeKind = "state_manager" /\ GetWorkflowSession # NoSession
       THEN /\ session' = GetWorkflowSession
            /\ origin' = "loaded"
            /\ pc' = "loop"
            /\ result' = NoResult
            /\ UNCHANGED << smWorkflows, file, lockHeld, implCalls >>
       ELSE IF ~issueOk
       THEN \* get_issue fails: PlatformError, re-raised as WorkflowError
            /\ session' = NoSession
            /\ origin' = "none"
            /\ pc' = "idle"
            /\ result' = [NoResult EXCEPT !.outcome = "raised", !.error = "platform"]
            /\ UNCHANGED << smWorkflows, file, lockHeld, implCalls >>
       ELSE /\ session' = NewSession(configMaxIter)
            /\ origin' = "created"
            /\ implCalls' = 0
            /\ SaveWorkflowSession(session')
            /\ pc' = IF SaveReturns THEN "loop" ELSE "blocked"
            /\ result' = NoResult
    /\ UNCHANGED auxVars
    /\ UNCHANGED << storeKind, configMaxIter, restarts, prCreated, platform, lastReview >>

\* One iteration of the stage loop after the handler for state x has run:
\* s2 is the session as the handler left it, ok/next/err its result dict,
\* cont the user's answer to "Continue to next stage?".
FinishStage(x, s2, ok, next, err, cont) ==
    /\ invoked' = Append(invoked, StageHandlers[x])
    /\ IF ok
       THEN /\ stages' = Append(stages, WorkflowState[s2.current_state])
            /\ session' = [s2 EXCEPT !.current_state = WorkflowStateOf(next)]
            /\ SaveWorkflowSession(session')
            /\ failedAt' = "none"
            /\ asked' = (SaveReturns /\ ~autoMode /\ ~dryRun)
            /\ IF ~SaveReturns
               THEN pc' = "blocked" /\ result' = result
               ELSE IF ~autoMode /\ ~dryRun /\ ~cont
               THEN pc' = "idle" /\ result' = FinalResult(session', "none", stages')
               ELSE pc' = "loop" /\ result' = result
       ELSE /\ stages' = stages
            /\ session' = s2
            /\ failedAt' = x
            /\ asked' = FALSE
            /\ pc' = "idle"
            /\ result' = FinalResult(s2, err, stages)
            /\ UNCHANGED << smWorkflows, file, lockHeld >>

AtStage(x) ==
    /\ pc = "loop"
    /\ session.current_state = x
    /\ x \notin LoopTerminalStates

AppendTranscript(s, entry) ==
    [s EXCEPT !.session_transcript = Append(@, entry)]

\* _stage_validation
StageValidation(outcome, labelsOk, cont) ==
    /\ AtStage("PENDING")
    /\ lastEvent' = "validation"
    /\ validatorSays' = outcome
    /\ IF dryRun
       THEN /\ FinishStage("PENDING", session, TRUE, WorkflowState.VALIDATED, "none", cont)
            /\ platform' = platform
       ELSE IF outcome \in {"no_agent", "agent_raises"}
       THEN /\ FinishStage("PENDING", session, FALSE, "none", outcome, cont)
            /\ platform' = platform
       ELSE LET s2 == AppendTranscript(session, <<"VALIDATION", outcome>>) IN
            IF outcome = "valid"
            THEN IF labelsOk
                 THEN /\ FinishStage("PENDING", s2, TRUE, WorkflowState.VALIDATED, "none", cont)
                      /\ platform' = [platform EXCEPT !.labelled = TRUE]
                 ELSE /\ FinishStage("PENDING", s2, FALSE, "none", "platform", cont)
                      /\ platform' = platform
            ELSE IF outcome = "needs_clarification"
            THEN /\ FinishStage("PENDING", s2, FALSE, "none", "needs_clarification", cont)
                 /\ platform' = IF ~autoMode /\ ~dryRun
                                 THEN [platform EXCEPT !.commented = TRUE]
                                 ELSE platform
            ELSE /\ FinishStage("PENDING", s2, FALSE, "none", "validation_failed", cont)
                 /\ platform' = platform
    /\ UNCHANGED auxVars
    /\ UNCHANGED << storeKind, configMaxIter, autoMode, dryRun, calls, restarts,
                    prCreated, origin, prevFailedAt, lastReview, implCalls, fanOut >>

\* _stage_worktree_creation
StageWorktreeCreation(cont) ==
    /\ AtStage("VALIDATED")
    /\ lastEvent' = "worktree"
    /\ IF dryRun
       THEN FinishStage("VALIDATED", session, TRUE, WorkflowState.IMPLEMENTING, "none", cont)
       ELSE LET s2 == [session EXCEPT
                          !.branch_name = BranchName(session.issue_number),
                          !.worktree_path = PathOf(WorktreeDir(session.issue_number))]
            IN FinishStage("VALIDATED", s2, TRUE, WorkflowState.IMPLEMENTING, "none", cont)
    /\ UNCHANGED auxVars
    /\ UNCHANGED << storeKind, configMaxIter, autoMode, dryRun, calls, restarts,
                    prCreated, platform, origin, prevFailedAt, lastReview,
                    implCalls, validatorSays, fanOut >>

\* the SUCCESS branch of _stage_implementation: session.iteration_count += 1
ImplementationSuccess(s) == [s EXCEPT !.iteration_count = @ + 1]

\* _stage_implementation
StageImplementation(outcome, cont) ==
    /\ AtStage("IMPLEMENTING")
    /\ lastEvent' = "implementation"
    /\ implCalls' = IF dryRun \/ outcome = "no_agent" THEN implCalls ELSE implCalls + 1
    /\ IF dryRun
       THEN FinishStage("IMPLEMENTING", session, TRUE, WorkflowState.IMPLEMENTED, "none", cont)
       ELSE IF outcome \in {"no_agent", "agent_raises"}
       THEN FinishStage("IMPLEMENTING", session, FALSE, "none", outcome, cont)
       ELSE LET s2 == AppendTranscript(session, <<"IMPLEMENTATION", outcome>>) IN
            IF outcome = "success"
            THEN FinishStage("IMPLEMENTING", ImplementationSuccess(s2), TRUE,
                             WorkflowState.IMPLEMENTED, "none", cont)
            ELSE IF outcome = "partial"
            THEN FinishStage("IMPLEMENTING", s2, TRUE, WorkflowState.IMPLEMENTED, "none", cont)
            ELSE FinishStage("IMPLEMENTING", s2, FALSE, "none", "implementation_failed", cont)
    /\ UNCHANGED auxVars
    /\ UNCHANGED << storeKind, configMaxIter, autoMode, dryRun, calls, restarts,
                    prCreated, platform, origin, prevFailedAt, lastReview, validatorSays,
                    fanOut >>

\* ------------------------------------------------------------------ review
ReviewerOutcomes ==
    {AgentReviewDecision[n] : n \in DOMAIN AgentReviewDecision}
        \cup {"agent_error", "other_error"}

Range(q) == {q[i] : i \in 1..Len(q)}

\* the loop of MultiAgentCoordinator.coordinate_review over the reviewers:
\* an AgentError drops that reviewer, any other exception leaves the loop
RECURSIVE CollectResponses(_, _)
CollectResponses(outs, acc) ==
    IF outs = <<>> THEN [raised |-> FALSE, responses |-> acc]
    ELSE IF Head(outs) = "other_error" THEN [raised |-> TRUE, responses |-> acc]
    ELSE IF Head(outs) = "agent_error" THEN CollectResponses(Tail(outs), acc)
    ELSE CollectResponses(Tail(outs), Append(acc, Head(outs)))

\* MultiAgentCoordinator.coordinate_review; outs holds one outcome per reviewer
CoordinateReview(outs) ==
    IF outs = <<>> THEN [raised |-> TRUE, responses |-> <<>>]
    ELSE CollectResponses(outs, <<>>)

\* ReviewDecision.<name> in the engine module: an AttributeError when the
\* imported enum has no such member
HasMember(name) == name \in DOMAIN ReviewDecision

\* _merge_review_feedback
MergeReviewFeedback(responses) ==
    IF responses = <<>>
    THEN IF HasMember("COMMENT")
         THEN [raised |-> FALSE, decision |-> ReviewDecision["COMMENT"]]
         ELSE [raised |-> TRUE, decision |-> "none"]
    ELSE IF ~HasMember("REQUEST_CHANGES") THEN [raised |-> TRUE, decision |-> "none"]
    ELSE IF ReviewDecision["REQUEST_CHANGES"] \in Range(responses)
    THEN [raised |-> FALSE, decision |-> ReviewDecision["REQUEST_CHANGES"]]
    ELSE IF ~HasMember("APPROVE") THEN [raised |-> TRUE, decision |-> "none"]
    ELSE IF ReviewDecision["APPROVE"] \in Range(responses)
    THEN [raised |-> FALSE, decision |-> ReviewDecision["APPROVE"]]
    ELSE IF HasMember("COMMENT")
    THEN [raised |-> FALSE, decision |-> ReviewDecision["COMMENT"]]
    ELSE [raised |-> TRUE, decision |-> "none"]

RECURSIVE AppendReviews(_, _)
AppendReviews(s, responses) ==
    IF responses = <<>> THEN s
    ELSE AppendReviews(AppendTranscript(s, <<"REVIEW", Head(responses)>>), Tail(responses))

ReviewRecord(responses, merged, next) ==
    [ ran |-> TRUE, responses |-> responses, merged |-> merged, next |-> next ]

\* how many reviewers the loop of coordinate_review calls: all of them,
\* unless a review_code raises something other than AgentError
ReviewersRun(outs) ==
    LET left == {i \in 1..Len(outs) : outs[i] = "other_error"} IN
    IF left = {} THEN Len(outs) ELSE CHOOSE i \in left : \A j \in left : i <= j

FanOutRecord(outs) ==
    [ ran |-> TRUE, outs |-> outs, reached |-> ReviewersRun(outs),
      returned |-> ~CoordinateReview(outs).raised ]

\* _stage_review
StageReview(prOk, filesOk, outs, cont) ==
    /\ AtStage("IMPLEMENTED")
    /\ lastEvent' = "review"
    /\ IF dryRun
       THEN /\ FinishStage("IMPLEMENTED", session, TRUE, WorkflowState.REVIEW_PASSED, "none", cont)
            /\ UNCHANGED << prCreated, lastReview, fanOut >>
       ELSE IF session.pr_number = NoPR /\ ~prOk
       THEN /\ FinishStage("IMPLEMENTED", session, FALSE, "none", "platform", cont)
            /\ UNCHANGED << prCreated, lastReview, fanOut >>
       ELSE
         LET create == session.pr_number = NoPR
             s1 == IF create THEN [session EXCEPT !.pr_number = prCreated + 1] ELSE session
             cr == CoordinateReview(outs)
             m == MergeReviewFeedback(cr.responses)
             s2 == AppendReviews(s1, cr.responses)
         IN /\ prCreated' = IF create THEN prCreated + 1 ELSE prCreated
            /\ fanOut' = IF filesOk THEN FanOutRecord(outs) ELSE fanOut
            /\ IF ~filesOk
               THEN /\ FinishStage("IMPLEMENTED", s1, FALSE, "none", "platform", cont)
                    /\ lastReview' = lastReview
               ELSE IF cr.raised
               THEN /\ FinishStage("IMPLEMENTED", s1, FALSE, "none", "review_raised", cont)
                    /\ lastReview' = lastReview
               ELSE IF m.raised
               THEN /\ FinishStage("IMPLEMENTED", s1, FALSE, "none", "attribute_error", cont)
                    /\ lastReview' = ReviewRecord(cr.responses, "none", "none")
               ELSE IF ~HasMember("APPROVE")
               THEN /\ FinishStage("IMPLEMENTED", s2, FALSE, "none", "attribute_error", cont)
                    /\ lastReview' = ReviewRecord(cr.responses, m.decision, "none")
               ELSE IF m.decision = ReviewDecision["APPROVE"]
               THEN /\ FinishStage("IMPLEMENTED", s2, TRUE, WorkflowState.REVIEW_PASSED,
                                   "none", cont)
                    /\ lastReview' = ReviewRecord(cr.responses, m.decision, "REVIEW_PASSED")
               ELSE /\ FinishStage("IMPLEMENTED", s2, TRUE, WorkflowState.NEEDS_FIXES,
                                   "none", cont)
                    /\ lastReview' = ReviewRecord(cr.responses, m.decision, "NEEDS_FIXES")
    /\ UNCHANGED auxVars
    /\ UNCHANGED << storeKind, configMaxIter, autoMode, dryRun, calls, restarts,
                    platform, origin, prevFailedAt, implCalls, validatorSays >>

\* _stage_fix_implementation
StageFixImplementation(cont) ==
    /\ AtStage("NEEDS_FIXES")
    /\ IF session.iteration_count >= session.max_iterations
       THEN /\ lastEvent' = "fix_max"
            /\ FinishStage("NEEDS_FIXES",
                           [session EXCEPT !.current_state = "MAX_ITERATIONS_REACHED"],
                           FALSE, WorkflowState.MAX_ITERATIONS_REACHED,
                           "max_iterations", cont)
       ELSE /\ lastEvent' = "fix_loop"
            /\ FinishStage("NEEDS_FIXES",
                           [session EXCEPT !.iteration_count = @ + 1],
                           TRUE, WorkflowState.IMPLEMENTING, "none", cont)
    /\ UNCHANGED auxVars
    /\ UNCHANGED << storeKind, configMaxIter, autoMode, dryRun, calls, restarts,
                    prCreated, platform, origin, prevFailedAt, lastReview,
                    implCalls, validatorSays, fanOut >>

\* a finalization that closes the workflow itself
StageFinalizationCompletes(cont) ==
    /\ AtStage("REVIEW_PASSED")
    /\ lastEvent' = "finalization"
    /\ FinishStage("REVIEW_PASSED", session, TRUE, WorkflowState.COMPLETED, "none", cont)
    /\ UNCHANGED auxVars
    /\ UNCHANGED << storeKind, configMaxIter, autoMode, dryRun, calls, restarts,
                    prCreated, platform, origin, prevFailedAt, lastReview,
                    implCalls, validatorSays, fanOut >>

\* _stage_finalization
StageFinalization(cont) ==
    /\ AtStage("REVIEW_PASSED")
    /\ lastEvent' = "finalization"
    /\ FinishStage("REVIEW_PASSED", session, TRUE, WorkflowState.READY_FOR_HUMAN, "none", cont)
    /\ UNCHANGED auxVars
    /\ UNCHANGED << storeKind, configMaxIter, autoMode, dryRun, calls, restarts,
                    prCreated, platform, origin, prevFailedAt, lastReview,
                    implCalls, validatorSays, fanOut >>

\* _execute_stage when the dispatch table has no entry for the current state
NoHandler ==
    /\ pc = "loop"
    /\ session.current_state \notin LoopTerminalStates
    /\ session.current_state \notin DOMAIN StageHandlers
    /\ pc' = "idle"
    /\ result' = FinalResult(session, "no_handler", stages)
    /\ lastEvent' = "no_handler"
    /\ asked' = FALSE
    /\ failedAt' = "none"
    /\ UNCHANGED auxVars
    /\ UNCHANGED << storeKind, configMaxIter, file, smWorkflows, lockHeld, session,
                    autoMode, dryRun, stages, calls, restarts, prCreated, platform,
                    origin, invoked, prevFailedAt, lastReview, implCalls, validatorSays,
                    fanOut >>

\* the stage loop's check for terminal states
LoopTerminal ==
    /\ pc = "loop"
    /\ session.current_state \in LoopTerminalStates
    /\ pc' = "idle"
    /\ result' = FinalResult(session, "none", stages)
    /\ lastEvent' = "terminal"
    /\ asked' = FALSE
    /\ UNCHANGED auxVars
    /\ UNCHANGED << storeKind, configMaxIter, file, smWorkflows, lockHeld, session,
                    autoMode, dryRun, stages, calls, restarts, prCreated, platform,
                    origin, invoked, failedAt, prevFailedAt, lastReview, implCalls,
                    validatorSays, fanOut >>

\* The process ends (it is killed while blocked, or exits between calls) and a
\* new one constructs its StateManager, which loads the state file.
Restart ==
    /\ storeKind = "state_manager"
    /\ pc \in {"idle", "blocked"}
    /\ restarts < MaxRestarts
    /\ restarts' = restarts + 1
    /\ smWorkflows' = file
    /\ lockHeld' = FALSE
    /\ session' = NoSession
    /\ pc' = "idle"
    /\ lastEvent' = "restart"
    /\ UNCHANGED auxVars
    /\ UNCHANGED << storeKind, configMaxIter, file, autoMode, dryRun, stages, result,
                    calls, prCreated, platform, origin, invoked, failedAt,
                    prevFailedAt, lastReview, implCalls, validatorSays, asked, fanOut >>

ReviewFanOuts ==
    UNION { [1..n -> ReviewerOutcomes] : n \in 0..MaxReviewers }

Next ==
    \/ \E auto \in BOOLEAN, dry \in BOOLEAN, issueOk \in BOOLEAN :
          ProcessIssue(auto, dry, issueOk)
    \/ \E outcome \in {"no_agent", "agent_raises"} \cup ValidationResult,
          labelsOk \in BOOLEAN, cont \in BOOLEAN :
          StageValidation(outcome, labelsOk, cont)
    \/ \E cont \in BOOLEAN : StageWorktreeCreation(cont)
    \/ \E outcome \in {"no_agent", "agent_raises"} \cup ImplementationResult,
          cont \in BOOLEAN :
          StageImplementation(outcome, cont)
    \/ \E prOk \in BOOLEAN, filesOk \in BOOLEAN, outs \in ReviewFanOuts, cont \in BOOLEAN :
          StageReview(prOk, filesOk, outs, cont)
    \/ \E cont \in BOOLEAN : StageFixImplementation(cont)
    \/ \E cont \in BOOLEAN : StageFinalization(cont)
    \/ NoHandler
    \/ LoopTerminal
    \/ Restart

Spec == Init /\ [][Next]_vars

\* one iteration of the "while True" loop of _execute_workflow
StageStep ==
    \/ \E outcome \in {"no_agent", "agent_raises"} \cup ValidationResult,
          labelsOk \in BOOLEAN, cont \in BOOLEAN :
          StageValidation(outcome, labelsOk, cont)
    \/ \E cont \in BOOLEAN : StageWorktreeCreation(cont)
    \/ \E outcome \in {"no_agent", "agent_raises"} \cup ImplementationResult,
          cont \in BOOLEAN :
          StageImplementation(outcome, cont)
    \/ \E prOk \in BOOLEAN, filesOk \in BOOLEAN, outs \in ReviewFanOuts, cont \in BOOLEAN :
          StageReview(prOk, filesOk, outs, cont)
    \/ \E cont \in BOOLEAN : StageFixImplementation(cont)
    \/ \E cont \in BOOLEAN : StageFinalization(cont)
    \/ NoHandler
    \/ LoopTerminal

\* The engine as a running program: process_issue runs the loop in the
\* caller's thread, so while a call is inside the loop its next iteration is
\* eventually executed.  Nothing obliges the caller to make another call or
\* the process to be restarted.
SpecLive == Init /\ [][Next]_vars /\ WF_vars(StageStep)

\* ------------------------------------------------- the state file on disk
MaxBoots == 2          \* StateManager constructions explored

\* The text of a file is the sequence of chunks json.dump wrote to it, each a
\* pair: the braces of the top-level object, or a key with its value's text.
ObjOpen == <<"{", "">>
ObjClose == <<"}", "">>
ArrayText == << <<"[]", "">> >>

\* texts of a workflows dictionary
DictTexts == {"{}", "{issue-1:pending}", "{issue-1:needs_fixes}"}
NotADictText == "42"

\* PipelineState() with the defaults of its fields
PipelineState == [version |-> "2.0", project_config |-> "null", workflows |-> "{}"]

\* json.dump(self._state.dict(), f, sort_keys=True)
JsonDump(st) ==
    << ObjOpen, <<"project_config", st.project_config>>, <<"version", st.version>>,
       <<"workflows", st.workflows>>, ObjClose >>

IsKeyChunk(c) == c[1] \notin {"{", "}", "[]"}

IsObjectText(data) ==
    /\ Len(data) >= 2
    /\ data[1] = ObjOpen /\ data[Len(data)] = ObjClose
    /\ \A i \in 2..(Len(data) - 1) : IsKeyChunk(data[i])

\* json.load(f): ok is FALSE where it raises json.JSONDecodeError
JsonLoad(data) ==
    [ ok |-> data = ArrayText \/ IsObjectText(data), isDict |-> IsObjectText(data) ]

\* data.get(key, default) on a parsed object
Field(data, key, default) ==
    IF \E i \in 1..Len(data) : data[i][1] = key
    THEN data[CHOOSE i \in 1..Len(data) : data[i][1] = key][2]
    ELSE default

\* _migrate_legacy_state: issues that cannot be converted are skipped, an
\* "issues" value without .items() raises
MigrateLegacyState(data) ==
    LET issues == Field(data, "issues", "{}") IN
    IF issues = NotADictText THEN [outcome |-> "load_raised", state |-> NoState]
    ELSE [ outcome |-> "migrated",
           state |-> [PipelineState EXCEPT
                         !.workflows = IF issues = "{1:pending}"
                                       THEN "{issue-1:pending}" ELSE "{}"] ]

\* _load_state, but for the rename of a file that json.load rejects
LoadState(f) ==
    IF ~f.exists THEN [outcome |-> "new", state |-> PipelineState]
    ELSE IF ~JsonLoad(f.data).ok THEN [outcome |-> "backed_up", state |-> PipelineState]
    ELSE IF ~JsonLoad(f.data).isDict THEN [outcome |-> "load_raised", state |-> NoState]
    ELSE IF Field(f.data, "version", "1.0") = "1.0" THEN MigrateLegacyState(f.data)
    ELSE IF Field(f.data, "workflows", "{}") \notin DictTexts
    THEN [outcome |-> "load_raised", state |-> NoState]
    ELSE [ outcome |-> "loaded",
           state |-> [ version |-> Field(f.data, "version", "2.0"),
                       project_config |-> Field(f.data, "project_config", "null"),
                       workflows |-> Field(f.data, "workflows", "{}") ] ]

LoadOutcomes == {"new", "backed_up", "load_raised", "migrated", "loaded"}

\* _save_state writing the state file itself
TempFileInPlace == "state"

\* temp_file = self.state_file.with_suffix(".tmp")
TempFile == "tmp"

WritePcs == {"save_open", "save_write", "save_replace"}

\* StateManager(config, state_file) up to the point where _save_state holds
\* the lock; cfg is "none" when no config is passed
Construct(cfg) ==
    /\ spc = "down"
    /\ boots < MaxBoots
    /\ boots' = boots + 1
    /\ loadedFrom' = disk.state
    /\ LET r == LoadState(disk.state) IN
       /\ disk' = IF r.outcome = "backed_up"
                  THEN [disk EXCEPT !.backup = disk.state, !.state = Absent]
                  ELSE disk
       /\ storeEvent' = r.outcome
       /\ IF r.outcome = "load_raised"
          THEN /\ smState' = NoState /\ spc' = "down"
               /\ UNCHANGED << prevFile, newDoc >>
          ELSE IF cfg = "none"
          THEN /\ smState' = r.state /\ spc' = "ready"
               /\ UNCHANGED << prevFile, newDoc >>
          ELSE /\ smState' = [r.state EXCEPT !.project_config = cfg]
               /\ spc' = "save_open"
               /\ prevFile' = disk'.state
               /\ newDoc' = JsonDump(smState')
    /\ UNCHANGED << engineVars, ciVars, fixVars, monVars, workerVars >>

\* _save_state: open(temp_file, "w")
SaveOpenTemp ==
    /\ spc = "save_open"
    /\ disk' = [disk EXCEPT ![TempFile] = [exists |-> TRUE, data |-> <<>>]]
    /\ spc' = "save_write"
    /\ storeEvent' = "open"
    /\ UNCHANGED << smState, prevFile, newDoc, loadedFrom, boots >>
    /\ UNCHANGED << engineVars, ciVars, fixVars, monVars, workerVars >>

\* _save_state: json.dump writes the next chunk; the file is closed after the last
SaveWriteChunk ==
    /\ spc = "save_write"
    /\ LET n == Len(disk[TempFile].data) IN
       /\ n < Len(newDoc)
       /\ disk' = [disk EXCEPT ![TempFile].data = Append(@, newDoc[n + 1])]
       /\ spc' = IF n + 1 = Len(newDoc) THEN "save_replace" ELSE "save_write"
    /\ storeEvent' = "write"
    /\ UNCHANGED << smState, prevFile, newDoc, loadedFrom, boots >>
    /\ UNCHANGED << engineVars, ciVars, fixVars, monVars, workerVars >>

\* _save_state: temp_file.replace(self.state_file), then the lock is released
SaveReplace ==
    /\ spc = "save_replace"
    /\ disk' = IF TempFile = "state" THEN disk
               ELSE [disk EXCEPT !.state = disk[TempFile], ![TempFile] = Absent]
    /\ spc' = "ready"
    /\ storeEvent' = "replace"
    /\ UNCHANGED << smState, prevFile, newDoc, loadedFrom, boots >>
    /\ UNCHANGED << engineVars, ciVars, fixVars, monVars, workerVars >>

\* _save_state: an I/O error becomes StateError and the constructor raises
SaveRaises ==
    /\ spc \in WritePcs
    /\ spc' = "down"
    /\ smState' = NoState
    /\ storeEvent' = "save_raised"
    /\ UNCHANGED << disk, prevFile, newDoc, loadedFrom, boots >>
    /\ UNCHANGED << engineVars, ciVars, fixVars, monVars, workerVars >>

\* save_workflow_session on a constructed manager: the workflows entry is set
\* under the lock, then _save_state asks for the lock again
StoreSaveWorkflowSession(w) ==
    /\ spc = "ready"
    /\ smState' = [smState EXCEPT !.workflows = w]
    /\ storeEvent' = "save_session"
    /\ IF CanAcquire(TRUE)
       THEN /\ spc' = "save_open"
            /\ prevFile' = disk.state
            /\ newDoc' = JsonDump(smState')
       ELSE /\ spc' = "blocked"
            /\ UNCHANGED << prevFile, newDoc >>
    /\ UNCHANGED << disk, loadedFrom, boots >>
    /\ UNCHANGED << engineVars, ciVars, fixVars, monVars, workerVars >>

\* the process dies; what is on disk stays
Crash ==
    /\ spc # "down"
    /\ spc' = "down"
    /\ smState' = NoState
    /\ storeEvent' = IF spc \in WritePcs THEN "crash_in_write" ELSE "crash"
    /\ UNCHANGED << disk, prevFile, newDoc, loadedFrom, boots >>
    /\ UNCHANGED << engineVars, ciVars, fixVars, monVars, workerVars >>

ConfigTexts == {"cfgA", "cfgB"}

\* what the state file can hold before the first construction
InitialFiles ==
    {Absent}
      \cup { [exists |-> TRUE, data |-> JsonDump([PipelineState EXCEPT !.workflows = w])] :
               w \in DictTexts \cup {NotADictText} }
      \cup { [exists |-> TRUE, data |-> SubSeq(JsonDump(PipelineState), 1, n)] : n \in 0..4 }
      \cup { [exists |-> TRUE, data |-> ArrayText] }
      \cup { [exists |-> TRUE, data |-> << ObjOpen, <<"issues", i>>, ObjClose >>] :
               i \in {"{}", "{1:pending}", "{1:bogus}", NotADictText} }
      \cup { [exists |-> TRUE, data |-> << ObjOpen, <<"issues", "{1:pending}">>,
                                           <<"version", "1.0">>, ObjClose >>] }

\* the engine is not running
EngineIdle ==
    /\ storeKind = "none" /\ configMaxIter = 1
    /\ file = NoSession /\ smWorkflows = NoSession /\ lockHeld = FALSE
    /\ session = NoSession /\ pc = "idle"
    /\ autoMode = FALSE /\ dryRun = FALSE
    /\ stages = <<>> /\ result = NoResult
    /\ calls = 0 /\ restarts = 0 /\ prCreated = 0
    /\ platform = [labelled |-> FALSE, commented |-> FALSE]
    /\ origin = "none" /\ invoked = <<>>
    /\ failedAt = "none" /\ prevFailedAt = "none"
    /\ lastEvent = "none" /\ lastReview = NoReview
    /\ implCalls = 0 /\ validatorSays = "none" /\ asked = FALSE
    /\ fanOut = NoFanOut

InitStore ==
    /\ EngineIdle /\ CiIdle /\ FixIdle /\ MonIdle /\ WorkersIdle
    /\ disk \in { [state |-> f, tmp |-> Absent, backup |-> Absent] : f \in InitialFiles }
    /\ smState = NoState
    /\ spc = "down"
    /\ prevFile = Absent
    /\ newDoc = <<>>
    /\ loadedFrom = Absent
    /\ storeEvent = "none"
    /\ boots = 0

NextStore ==
    \/ \E cfg \in {"none"} \cup ConfigTexts : Construct(cfg)
    \/ SaveOpenTemp
    \/ SaveWriteChunk
    \/ SaveReplace
    \/ SaveRaises
    \/ \E w \in DictTexts : StoreSaveWorkflowSession(w)
    \/ Crash

SpecStore == InitStore /\ [][NextStore]_vars

\* ------------------------------------------------- CI-failure detection
MaxLogLines == 2       \* lines of a failed job's log

FeedbackType ==
    [ CI_FAILURE |-> "ci_failure", REVIEW_FEEDBACK |-> "review_feedback",
      MERGE_CONFLICT |-> "merge_conflict", SECURITY_ALERT |-> "security_alert" ]

FixPriority ==
    [ CRITICAL |-> "critical", HIGH |-> "high", MEDIUM |-> "medium", LOW |-> "low" ]

FeedbackItem(type, priority, title) ==
    [ type |-> type, priority |-> priority, title |-> title ]

\* Shapes of a log line:
\*   flake8_cmd     "flake8 src/ tests/ --count"
\*   lint_E9/E5/W   "src/a.py:10:80: E501 line too long"
\*   mypy_error     "src/a.py:45: error: incompatible type"
\*   pytest_failed  "FAILED tests/t.py::test_x - assert 1 == 2"
\*   sphinx_error   "sphinx-build: error: could not find documentation"
\*   other          "npm ERR! exit status 1"
LineKinds ==
    {"flake8_cmd", "lint_E9", "lint_E5", "lint_W", "mypy_error", "pytest_failed",
     "sphinx_error", "other"}

\* the substrings the parsers look for, per shape of line (lower-cased text)
LineWords(kind) ==
    CASE kind = "flake8_cmd" -> {"flake8"}
      [] kind = "mypy_error" -> {"error", "error:"}
      [] kind = "sphinx_error" -> {"sphinx", "sphinx-build", "error", "error:"}
      [] OTHER -> {}

\* names of failed jobs, and the parser keys each contains
JobNames == {"flake8", "black", "mypy", "pytest", "sphinx", "isort", "build"}
JobWords(name) == IF name = "build" THEN {} ELSE {name}

LogHas(log, word) == \E i \in 1..Len(log) : word \in LineWords(log[i])

IsLintLine(kind) == kind \in {"lint_E9", "lint_E5", "lint_W"}
IsMypyLine(kind) == kind = "mypy_error"
IsPytestLine(kind) == kind = "pytest_failed"

\* CIFailureDetector._parse_ci_failure's item for a line the flake8 pattern matches
DetectorLintItem(kind) ==
    FeedbackItem(FeedbackType.CI_FAILURE,
                 IF kind = "lint_E9" THEN FixPriority.HIGH ELSE FixPriority.MEDIUM,
                 "Linting Error")

\* CIFailureDetector._parse_ci_failure
ParseCIFailure(failure) ==
    LET hits == SelectSeq(failure.log, IsLintLine)
        lint == [i \in 1..Len(hits) |-> DetectorLintItem(hits[i])]
    IN IF LogHas(failure.log, "sphinx-build") /\ LogHas(failure.log, "error")
       THEN Append(lint, FeedbackItem(FeedbackType.CI_FAILURE, FixPriority.MEDIUM,
                                      "Documentation Build Error"))
       ELSE lint

\* GitHubActionsParser._parse_flake8_errors
ParseFlake8Errors(failure) ==
    LET hits == SelectSeq(failure.log, IsLintLine) IN
    [i \in 1..Len(hits) |->
        FeedbackItem(FeedbackType.CI_FAILURE,
                     IF hits[i] = "lint_W" THEN FixPriority.LOW
                     ELSE IF hits[i] = "lint_E9" THEN FixPriority.HIGH
                     ELSE FixPriority.MEDIUM,
                     "Linting Error")]

\* GitHubActionsParser._parse_black_errors
ParseBlackErrors(failure) ==
    IF LogHas(failure.log, "error:") /\ "black" \in JobWords(failure.name)
    THEN << FeedbackItem(FeedbackType.CI_FAILURE, FixPriority.MEDIUM,
                         "Black Formatting Error") >>
    ELSE <<>>

\* GitHubActionsParser._parse_mypy_errors
ParseMypyErrors(failure) ==
    LET hits == SelectSeq(failure.log, IsMypyLine) IN
    [i \in 1..Len(hits) |->
        FeedbackItem(FeedbackType.CI_FAILURE, FixPriority.HIGH, "Type Error")]

\* GitHubActionsParser._parse_pytest_errors
ParsePytestErrors(failure) ==
    LET hits == SelectSeq(failure.log, IsPytestLine) IN
    [i \in 1..Len(hits) |->
        FeedbackItem(FeedbackType.CI_FAILURE, FixPriority.HIGH, "Test Failure")]

\* GitHubActionsParser._parse_sphinx_errors
ParseSphinxErrors(failure) ==
    IF "sphinx" \in JobWords(failure.name)
        /\ (LogHas(failure.log, "warning") \/ LogHas(failure.log, "error"))
    THEN << FeedbackItem(FeedbackType.CI_FAILURE, FixPriority.MEDIUM,
                         "Documentation Build Issue") >>
    ELSE <<>>

\* GitHubActionsParser._parse_isort_errors
ParseIsortErrors(failure) ==
    IF LogHas(failure.log, "fixing") \/ LogHas(failure.log, "import")
    THEN << FeedbackItem(FeedbackType.CI_FAILURE, FixPriority.MEDIUM,
                         "Import Sorting Issue") >>
    ELSE <<>>

\* a parser of self.parsers runs when its key is in the job name or the log
ParserRuns(key, failure) == key \in JobWords(failure.name) \/ LogHas(failure.log, key)

RunParser(key, items, failure) ==
    IF ParserRuns(key, failure) THEN items ELSE <<>>

\* GitHubActionsParser._parse_generic_failure
ParseGenericFailure(failure) ==
    << FeedbackItem(FeedbackType.CI_FAILURE, FixPriority.HIGH, "CI Failure") >>

\* GitHubActionsParser._parse_failure
ParseFailure(failure) ==
    LET items == RunParser("flake8", ParseFlake8Errors(failure), failure)
                   \o RunParser("black", ParseBlackErrors(failure), failure)
                   \o RunParser("mypy", ParseMypyErrors(failure), failure)
                   \o RunParser("pytest", ParsePytestErrors(failure), failure)
                   \o RunParser("sphinx", ParseSphinxErrors(failure), failure)
                   \o RunParser("isort", ParseIsortErrors(failure), failure)
    IN IF items = <<>> THEN ParseGenericFailure(failure) ELSE items

\* the detector AutoFixEngine.__init__ registers parses one failed job
DetectorParses ==
    /\ ciBy = "none"
    /\ ciItems' = ParseCIFailure(ciFailure)
    /\ ciBy' = "detector"
    /\ UNCHANGED << ciFailure, engineVars, storeVars, fixVars, monVars, workerVars >>

\* GitHubActionsParser parses one failed job
ParserParses ==
    /\ ciBy = "none"
    /\ ciItems' = ParseFailure(ciFailure)
    /\ ciBy' = "parser"
    /\ UNCHANGED << ciFailure, engineVars, storeVars, fixVars, monVars, workerVars >>

Logs == UNION { [1..n -> LineKinds] : n \in 0..MaxLogLines }

InitCI ==
    /\ EngineIdle /\ StoreIdle /\ FixIdle /\ MonIdle /\ WorkersIdle
    /\ ciFailure \in [name : JobNames, log : Logs]
    /\ ciItems = <<>>
    /\ ciBy = "none"

NextCI == DetectorParses \/ ParserParses

SpecCI == InitCI /\ [][NextCI]_vars

\* ---------------------------------------------------------- auto-fix cycle
MaxFixIterations == 2  \* largest max_iterations explored (the default is 3)
MaxFixCalls == 1       \* run_auto_fix_cycle calls explored
MaxGroups == 2         \* fix groups of one iteration

\* the detectors AutoFixEngine.__init__ registers
Detectors == <<"CIFailureDetector", "ReviewFeedbackDetector">>

\* what one detector can hand back in one round: it raises, or returns items
DetectorItems ==
    { FeedbackItem(FeedbackType.CI_FAILURE, FixPriority.MEDIUM, "Linting Error"),
      FeedbackItem(FeedbackType.REVIEW_FEEDBACK, FixPriority.HIGH, "Review Feedback") }

DetectorOutcomes ==
    { [raised |-> TRUE, items |-> <<>>], [raised |-> FALSE, items |-> <<>>] }
        \cup { [raised |-> FALSE, items |-> <<x>>] : x \in DetectorItems }

\* _detect_all_feedback without the try around each detector: the first
\* detector that raises ends the detection with what was collected before it
RECURSIVE DetectUntilRaise(_)
DetectUntilRaise(outs) ==
    IF outs = <<>> \/ Head(outs).raised THEN <<>>
    ELSE Head(outs).items \o DetectUntilRaise(Tail(outs))

\* _detect_all_feedback: a detector that raises is logged and skipped
RECURSIVE DetectAllFeedback(_)
DetectAllFeedback(outs) ==
    IF outs = <<>> THEN <<>>
    ELSE (IF Head(outs).raised THEN <<>> ELSE Head(outs).items)
             \o DetectAllFeedback(Tail(outs))

PriorityOrder == [critical |-> 0, high |-> 1, medium |-> 2, low |-> 3]

\* the order of the type values as strings
TypeRank == [ci_failure |-> 0, merge_conflict |-> 1, review_feedback |-> 2,
             security_alert |-> 3]

KeyLess(a, b) ==
    \/ PriorityOrder[a.priority] < PriorityOrder[b.priority]
    \/ /\ PriorityOrder[a.priority] = PriorityOrder[b.priority]
       /\ TypeRank[a.type] < TypeRank[b.type]

RECURSIVE InsertByKey(_, _)
InsertByKey(x, q) ==
    IF q = <<>> THEN <<x>>
    ELSE IF KeyLess(x, Head(q)) THEN <<x>> \o q
    ELSE <<Head(q)>> \o InsertByKey(x, Tail(q))

\* _prioritize_feedback: sorted() by (priority_order, type.value), stable
RECURSIVE PrioritizeFeedback(_)
PrioritizeFeedback(q) ==
    IF q = <<>> THEN <<>>
    ELSE InsertByKey(q[Len(q)], PrioritizeFeedback(SubSeq(q, 1, Len(q) - 1)))

\* What happens to one fix group in _apply_fixes:
\*   fixed           the agent succeeded, its files exist
\*   fixed_no_files  the agent succeeded and named no file
\*   no_fix          the agent succeeded, nothing parsed as a fix
\*   missing_file    the agent succeeded, a file it named is not on disk
\*   agent_failed    _apply_ai_fixes returned success False
\*   raises          processing the group raised
GroupOutcomes ==
    {"fixed", "fixed_no_files", "no_fix", "missing_file", "agent_failed", "raises"}

IndicesWhere(outs, kinds) ==
    SelectSeq([i \in 1..Len(outs) |-> i], LAMBDA i : outs[i] \in kinds)

\* _apply_fixes leaving its loop at the first group that fails or raises
ApplyFixesStopsAtFailure(outs) ==
    LET bad == IndicesWhere(outs, {"agent_failed", "raises"})
        done == IF bad = <<>> THEN outs ELSE SubSeq(outs, 1, Head(bad))
        fixes == IndicesWhere(done, {"fixed", "fixed_no_files", "missing_file"})
        files == IndicesWhere(done, {"fixed", "missing_file"})
        errors == IndicesWhere(done, {"missing_file", "raises"})
    IN AutoFixResult(Len(fixes) > 0 /\ Len(errors) = 0, fixes, files,
                     IF fixes = <<>> THEN "chore: no changes applied" ELSE "fix",
                     Len(errors) = 0,
                     IF errors = <<>> THEN "none" ELSE "validation errors")

\* _apply_fixes over the groups of the prioritized feedback; fixes and files
\* are named by the group they come from
ApplyFixes(outs) ==
    LET fixes == IndicesWhere(outs, {"fixed", "fixed_no_files", "missing_file"})
        files == IndicesWhere(outs, {"fixed", "missing_file"})
        errors == IndicesWhere(outs, {"missing_file", "raises"})
    IN AutoFixResult(Len(fixes) > 0 /\ Len(errors) = 0, fixes, files,
                     IF fixes = <<>> THEN "chore: no changes applied" ELSE "fix",
                     Len(errors) = 0,
                     IF errors = <<>> THEN "none" ELSE "validation errors")

\* what git does when _commit_and_push_fixes runs it
GitOutcomes == {"add_fails", "clean", "commit_fails", "pushed", "push_fails"}

\* _commit_and_push_fixes when the push fails after the commit, returning False
PushFailureFailsCommit == FALSE

\* _commit_and_push_fixes: "Still return True since the commit worked"
PushFailureReturns == TRUE

\* _commit_and_push_fixes
CommitAndPushFixes(applied, git) ==
    IF applied.files_modified = <<>>
    THEN [ret |-> TRUE, committed |-> FALSE, pushed |-> FALSE, pushFailed |-> FALSE]
    ELSE IF git \in {"add_fails", "commit_fails"}
    THEN [ret |-> FALSE, committed |-> FALSE, pushed |-> FALSE, pushFailed |-> FALSE]
    ELSE IF git = "clean"
    THEN [ret |-> TRUE, committed |-> FALSE, pushed |-> FALSE, pushFailed |-> FALSE]
    ELSE IF git = "pushed"
    THEN [ret |-> TRUE, committed |-> TRUE, pushed |-> TRUE, pushFailed |-> FALSE]
    ELSE [ret |-> PushFailureReturns, committed |-> TRUE, pushed |-> FALSE,
          pushFailed |-> TRUE]

\* the loop running out reported as a success
MaxIterationsSuccess ==
    AutoFixResult(TRUE, <<>>, <<>>, "", TRUE, "none")

\* the result after the loop: "Max iterations (n) reached"
MaxIterationsResult ==
    AutoFixResult(FALSE, <<>>, <<>>, "", FALSE, "Max iterations reached")

\* a round without feedback reported as a failed cycle
NothingToFixFails ==
    AutoFixResult(FALSE, <<>>, <<>>, "No fixes needed", FALSE, "No feedback items found")

\* the result of a round that detected no feedback
NoFixesNeeded ==
    AutoFixResult(TRUE, <<>>, <<>>, "No fixes needed", TRUE, "none")

\* One pass through the body of run_auto_fix_cycle's loop.  returned is
\* "none" when the loop goes on, else the reason the call returns result.
IterationOutcome(dets, groups, git) ==
    LET fb == PrioritizeFeedback(DetectAllFeedback(dets))
        ap == ApplyFixes(groups)
        c == CommitAndPushFixes(ap, git)
        none == [ret |-> TRUE, committed |-> FALSE, pushed |-> FALSE, pushFailed |-> FALSE]
        Out(applied, success, cm, why, res) ==
            [ ran |-> TRUE, feedback |-> fb, applied |-> applied, success |-> success,
              committed |-> cm.committed, pushed |-> cm.pushed,
              pushFailed |-> cm.pushFailed, returned |-> why, result |-> res ]
    IN IF fb = <<>>
       THEN Out(NoFixResult, TRUE, none, "no_feedback", NoFixesNeeded)
       ELSE IF ~ap.success
       THEN Out(ap, FALSE, none, "fix_failed", ap)
       ELSE IF ~c.ret
       THEN Out(ap, FALSE, c, "commit_failed",
                [ap EXCEPT !.success = FALSE, !.error_message = "Failed to commit fixes"])
       ELSE Out(ap, TRUE, c, "none", NoFixResult)

\* the environments of one iteration: the group outcomes are those of the
\* non-empty groups of the feedback, at least one when there is feedback
GroupFanOuts(dets) ==
    LET n == Len(DetectAllFeedback(dets)) IN
    IF n = 0 THEN {<<>>}
    ELSE UNION { [1..k -> GroupOutcomes] : k \in 1..(IF n < MaxGroups THEN n ELSE MaxGroups) }

DetectorFanOuts == [1..Len(Detectors) -> DetectorOutcomes]

\* git runs only when the fixes succeeded and modified files; when it does not
\* run, its outcome is immaterial and one value stands for it
GitFanOuts(groups) ==
    LET ap == ApplyFixes(groups) IN
    IF ap.success /\ ap.files_modified # <<>> THEN GitOutcomes ELSE {"clean"}

\* run_auto_fix_cycle is called
RunAutoFixCycle(maxIterations) ==
    /\ fixPc = "idle"
    /\ fixCalls < MaxFixCalls
    /\ fixCalls' = fixCalls + 1
    /\ fixPc' = "running"
    /\ fixMax' = maxIterations
    /\ fixIter' = 0
    /\ fixResult' = NoFixResult
    /\ fixLast' = NoIteration
    /\ fixEnv' = NoFixEnv
    /\ UNCHANGED << engineVars, storeVars, ciVars, monVars, workerVars >>

\* one iteration of the loop of run_auto_fix_cycle
FixIteration(dets, groups, git) ==
    /\ fixPc = "running"
    /\ fixIter < fixMax
    /\ fixIter' = fixIter + 1
    /\ fixEnv' = [dets |-> dets, groups |-> groups]
    /\ LET it == IterationOutcome(dets, groups, git) IN
       /\ fixLast' = [f \in DOMAIN NoIteration |-> it[f]]
       /\ IF it.returned = "none"
          THEN fixPc' = "running" /\ fixResult' = fixResult
          ELSE fixPc' = "idle" /\ fixResult' = it.result
    /\ UNCHANGED << fixMax, fixCalls >>
    /\ UNCHANGED << engineVars, storeVars, ciVars, monVars, workerVars >>

\* the loop of run_auto_fix_cycle has run max_iterations times
MaxIterationsReached ==
    /\ fixPc = "running"
    /\ fixIter = fixMax
    /\ fixPc' = "idle"
    /\ fixResult' = MaxIterationsResult
    /\ fixLast' = [fixLast EXCEPT !.returned = "max_iterations"]
    /\ UNCHANGED << fixMax, fixIter, fixCalls, fixEnv >>
    /\ UNCHANGED << engineVars, storeVars, ciVars, monVars, workerVars >>

InitFix ==
    /\ EngineIdle /\ StoreIdle /\ CiIdle /\ MonIdle /\ WorkersIdle
    /\ FixIdle

NextFix ==
    \/ \E m \in 1..MaxFixIterations : RunAutoFixCycle(m)
    \/ \E dets \in DetectorFanOuts :
          \E groups \in GroupFanOuts(dets) : \E git \in GitFanOuts(groups) :
             FixIteration(dets, groups, git)
    \/ MaxIterationsReached

SpecFix == InitFix /\ [][NextFix]_vars

\* what a call that is inside run_auto_fix_cycle does next
FixStep ==
    \/ \E dets \in DetectorFanOuts :
          \E groups \in GroupFanOuts(dets) : \E git \in GitFanOuts(groups) :
             FixIteration(dets, groups, git)
    \/ MaxIterationsReached

\* run_auto_fix_cycle runs in its caller's thread and every call it makes
\* returns or raises into one of its except clauses, so while a cycle is
\* running its next step is eventually executed.
SpecFixLive == InitFix /\ [][NextFix]_vars /\ WF_vars(FixStep)

\* ------------------------------------------------------ continuous monitor
MaxPRs == 2            \* pull requests that can be monitored
MaxStarts == 2         \* start_monitoring calls explored
MaxRuns == 2           \* run_monitoring_cycle calls explored
MaxCyclesArg == 2      \* largest max_cycles explored (the default is 10)

\* the cap on auto-fix attempts per PR in _process_pr
MaxAutoFixAttempts == 3

\* MonitoringStatus(...) as start_monitoring builds it
MonitoringStatus(pr) ==
    [ pr_number |-> pr, ci_status |-> "pending", auto_fix_attempts |-> 0,
      ready_for_human |-> FALSE, validation_complete |-> FALSE ]

\* list(self.monitored_prs.keys())
Keys(m) == [i \in 1..Len(m) |-> m[i].pr_number]

Tracked(m) == {m[i].pr_number : i \in 1..Len(m)}

\* self.monitored_prs[pr]
StatusOf(m, pr) == m[CHOOSE i \in 1..Len(m) : m[i].pr_number = pr]

\* self.monitored_prs[pr] = st
SetStatus(m, pr, st) ==
    IF pr \in Tracked(m)
    THEN [i \in 1..Len(m) |-> IF m[i].pr_number = pr THEN st ELSE m[i]]
    ELSE Append(m, st)

\* del self.monitored_prs[pr]
DelStatus(m, pr) == SelectSeq(m, LAMBDA st : st.pr_number # pr)

\* dict.get(key, default)
Get(d, key, default) == IF key \in DOMAIN d THEN d[key] ELSE default

\* what _get_ci_status returns
CIStatuses == {"passing", "failing", "unknown"}

\* run_auto_fix_cycle(pr, max_iterations=1): one iteration, then the loop ends
RunAutoFixCycleOnce(dets, groups, git) ==
    LET it == IterationOutcome(dets, groups, git) IN
    IF it.returned # "none" THEN it.result ELSE MaxIterationsResult

SingleCycleResults ==
    UNION { { RunAutoFixCycleOnce(d, g, git) : g \in GroupFanOuts(d), git \in GitOutcomes } :
              d \in DetectorFanOuts }

\* the branch of _process_pr that delegates, taken at the cap as well
MayAutoFixAtCap(st, ci) ==
    ci = "failing" /\ st.auto_fix_attempts <= MaxAutoFixAttempts

\* the branch of _process_pr that delegates an auto-fix cycle
MayAutoFix(st, ci) ==
    ci = "failing" /\ st.auto_fix_attempts < MaxAutoFixAttempts

\* _process_pr: the status as it leaves it, and the dict it returns
ProcessPr(st, ci, fix) ==
    LET s1 == [st EXCEPT !.ci_status = ci] IN
    IF ci = "passing"
    THEN [ status |-> [s1 EXCEPT !.ready_for_human = TRUE, !.validation_complete = TRUE],
           delegated |-> FALSE,
           result |-> [status |-> "ready_for_human", ci_status |-> ci,
                       ready_for_human |-> TRUE] ]
    ELSE IF MayAutoFix(s1, ci)
    THEN LET s2 == [s1 EXCEPT !.auto_fix_attempts = @ + 1] IN
         [ status |-> s2,
           delegated |-> TRUE,
           result |-> IF fix.success /\ fix.fixes_applied # <<>>
                      THEN [status |-> "auto_fix_applied", attempt |-> s2.auto_fix_attempts]
                      ELSE [status |-> "auto_fix_failed", error |-> fix.error_message,
                            attempt |-> s2.auto_fix_attempts] ]
    ELSE IF s1.auto_fix_attempts >= MaxAutoFixAttempts
    THEN [ status |-> [s1 EXCEPT !.ready_for_human = TRUE],
           delegated |-> FALSE,
           result |-> [status |-> "needs_human_intervention", ci_status |-> ci,
                       attempts |-> s1.auto_fix_attempts] ]
    ELSE [ status |-> s1, delegated |-> FALSE,
           result |-> [status |-> "waiting", ci_status |-> ci] ]

\* start_monitoring
StartMonitoring(pr) ==
    /\ mpc = "idle"
    /\ starts < MaxStarts
    /\ starts' = starts + 1
    /\ monitored' = SetStatus(monitored, pr, MonitoringStatus(pr))
    /\ monEvent' = [NoMonEvent EXCEPT !.kind = "start", !.pr = pr]
    /\ UNCHANGED << mpc, cycle, maxCyc, pending, runs >>
    /\ UNCHANGED << engineVars, storeVars, ciVars, fixVars, workerVars >>

\* run_monitoring_cycle is called and its first cycle begins
RunMonitoringCycle(maxCycles) ==
    /\ mpc = "idle"
    /\ runs < MaxRuns
    /\ runs' = runs + 1
    /\ mpc' = "cycling"
    /\ cycle' = 1 /\ maxCyc' = maxCycles
    /\ pending' = Keys(monitored)
    /\ monEvent' = [NoMonEvent EXCEPT !.kind = "run"]
    /\ UNCHANGED << monitored, starts >>
    /\ UNCHANGED << engineVars, storeVars, ciVars, fixVars, workerVars >>

\* the body of the loop over the PRs of a cycle: _process_pr, then the PR is
\* dropped when the returned dict says ready_for_human
ProcessPullRequest(ci, fix) ==
    /\ mpc = "cycling"
    /\ pending # <<>>
    /\ LET pr == Head(pending)
           out == ProcessPr(StatusOf(monitored, pr), ci, fix)
           drop == Get(out.result, "ready_for_human", FALSE)
       IN /\ monitored' = IF drop THEN DelStatus(monitored, pr)
                          ELSE SetStatus(monitored, pr, out.status)
          /\ monEvent' = [ kind |-> "process", pr |-> pr, ci |-> ci,
                           before |-> StatusOf(monitored, pr).auto_fix_attempts,
                           delegated |-> out.delegated, result |-> out.result,
                           removed |-> drop ]
    /\ pending' = Tail(pending)
    /\ UNCHANGED << mpc, cycle, maxCyc, starts, runs >>
    /\ UNCHANGED << engineVars, storeVars, ciVars, fixVars, workerVars >>

\* the end of a cycle: leave the loop when nothing is monitored or max_cycles
\* cycles have run, else sleep and begin the next cycle
EndCycle ==
    /\ mpc = "cycling"
    /\ pending = <<>>
    /\ monEvent' = [NoMonEvent EXCEPT !.kind = "cycle_end"]
    /\ IF monitored = <<>> \/ cycle = maxCyc
       THEN mpc' = "idle" /\ UNCHANGED << cycle, pending >>
       ELSE mpc' = "cycling" /\ cycle' = cycle + 1 /\ pending' = Keys(monitored)
    /\ UNCHANGED << monitored, maxCyc, starts, runs >>
    /\ UNCHANGED << engineVars, storeVars, ciVars, fixVars, workerVars >>

InitMonitor ==
    /\ EngineIdle /\ StoreIdle /\ CiIdle /\ FixIdle /\ WorkersIdle
    /\ MonIdle

NextMonitor ==
    \/ \E pr \in 1..MaxPRs : StartMonitoring(pr)
    \/ \E m \in 1..MaxCyclesArg : RunMonitoringCycle(m)
    \/ \E ci \in CIStatuses, fix \in SingleCycleResults : ProcessPullRequest(ci, fix)
    \/ EndCycle

SpecMonitor == InitMonitor /\ [][NextMonitor]_vars

\* ------------------------------------- two workers over one state file
MaxOps == 2            \* save, delete and cleanup calls of one worker

\* a workflows entry as session.to_dict() writes it: its current_state (one
\* state of each class of the statistics is explored), and whether its
\* updated_at is before the cutoff of cleanup_completed_workflows
Records ==
    [ current_state : { WorkflowState.PENDING, WorkflowState.COMPLETED,
                        WorkflowState.MAX_ITERATIONS_REACHED },
      old : BOOLEAN ]

\* WorkflowState(v) does not raise ValueError
IsWorkflowState(v) == \E n \in StateNames : WorkflowState[n] = v

CompletedStates == {WorkflowState.COMPLETED, WorkflowState.MERGED}

FailedStates ==
    { WorkflowState.VALIDATION_FAILED, WorkflowState.IMPLEMENTATION_FAILED,
      WorkflowState.REVIEW_FAILED, WorkflowState.MAX_ITERATIONS_REACHED,
      WorkflowState.NEEDS_HUMAN_INTERVENTION }

\* the keys of a workflows dictionary
Keyed(workflows) == {i \in Issues : workflows[i] # NoRecord}

\* _update_global_stats with "if" for the failed states where the code has
\* "elif": a completed workflow falls through to the else branch as well
UpdateGlobalStatsIfChain(workflows) ==
    LET counted == {i \in Keyed(workflows) : IsWorkflowState(workflows[i].current_state)}
        completed == {i \in counted : workflows[i].current_state \in CompletedStates}
        failed == {i \in counted : workflows[i].current_state \in FailedStates}
    IN [ total_workflows |-> Cardinality(counted),
         active_workflows |-> Cardinality(counted \ failed),
         completed_workflows |-> Cardinality(completed),
         failed_workflows |-> Cardinality(failed) ]

\* _update_global_stats: every workflow whose current_state is a WorkflowState
\* is counted once in the total and once in one of the three classes; one
\* whose current_state is not is skipped
UpdateGlobalStats(workflows) ==
    LET counted == {i \in Keyed(workflows) : IsWorkflowState(workflows[i].current_state)}
        completed == {i \in counted : workflows[i].current_state \in CompletedStates}
        failed == {i \in counted : workflows[i].current_state \in FailedStates}
    IN [ total_workflows |-> Cardinality(counted),
         active_workflows |-> Cardinality(counted \ (completed \cup failed)),
         completed_workflows |-> Cardinality(completed),
         failed_workflows |-> Cardinality(failed) ]

\* The tail of save_workflow_session, delete_workflow_session and
\* cleanup_completed_workflows once the workflows are wf: the statistics are
\* recomputed under the lock, then _save_state asks for the lock again and,
\* if it gets it, replaces the state file by the whole of the instance's state.
UpdateAndSave(w, wf) ==
    /\ inst' = [inst EXCEPT ![w] = [workflows |-> wf, global_stats |-> UpdateGlobalStats(wf)]]
    /\ IF CanAcquire(TRUE)
       THEN shared' = inst'[w] /\ wpc' = wpc
       ELSE shared' = shared /\ wpc' = [wpc EXCEPT ![w] = "blocked"]

\* StateManager(config, state_file) in worker w: _load_state reads the file;
\* with a config the constructor goes on to _save_state
WorkerConstruct(w, config) ==
    /\ wpc[w] = "down"
    /\ inst' = [inst EXCEPT ![w] = shared]
    /\ wpc' = [wpc EXCEPT ![w] = IF config THEN "saving" ELSE "ready"]
    /\ UNCHANGED << shared, saved, reported, ops >>
    /\ UNCHANGED << engineVars, storeVars, ciVars, fixVars, monVars >>

\* _save_state called by the constructor: the lock is free, the state file is
\* replaced by what the instance loaded
WorkerConstructSave(w) ==
    /\ wpc[w] = "saving"
    /\ shared' = inst[w]
    /\ wpc' = [wpc EXCEPT ![w] = "ready"]
    /\ UNCHANGED << inst, saved, reported, ops >>
    /\ UNCHANGED << engineVars, storeVars, ciVars, fixVars, monVars >>

\* save_workflow_session(session) in worker w, for the issue it processes
WorkerSave(w, rec) ==
    /\ wpc[w] = "ready"
    /\ ops[w] < MaxOps
    /\ ops' = [ops EXCEPT ![w] = @ + 1]
    /\ saved' = [saved EXCEPT ![w] = rec]
    /\ UpdateAndSave(w, [inst[w].workflows EXCEPT ![w] = rec])
    /\ UNCHANGED reported
    /\ UNCHANGED << engineVars, storeVars, ciVars, fixVars, monVars >>

\* delete_workflow_session(issue) in worker w: an unknown issue returns False
\* and nothing else happens
WorkerDelete(w, issue) ==
    /\ wpc[w] = "ready"
    /\ ops[w] < MaxOps
    /\ ops' = [ops EXCEPT ![w] = @ + 1]
    /\ IF issue \in Keyed(inst[w].workflows)
       THEN UpdateAndSave(w, [inst[w].workflows EXCEPT ![issue] = NoRecord])
       ELSE UNCHANGED << inst, shared, wpc >>
    /\ UNCHANGED << saved, reported >>
    /\ UNCHANGED << engineVars, storeVars, ciVars, fixVars, monVars >>

\* what cleanup_completed_workflows removes
ToRemove(workflows) ==
    { i \in Keyed(workflows) :
        workflows[i].current_state \in {"completed", "merged"} /\ workflows[i].old }

\* cleanup_completed_workflows in worker w: statistics and file are touched
\* only when something was removed
WorkerCleanup(w) ==
    /\ wpc[w] = "ready"
    /\ ops[w] < MaxOps
    /\ ops' = [ops EXCEPT ![w] = @ + 1]
    /\ LET gone == ToRemove(inst[w].workflows) IN
       IF gone # {}
       THEN UpdateAndSave(w, [i \in Issues |-> IF i \in gone THEN NoRecord
                                               ELSE inst[w].workflows[i]])
       ELSE UNCHANGED << inst, shared, wpc >>
    /\ UNCHANGED << saved, reported >>
    /\ UNCHANGED << engineVars, storeVars, ciVars, fixVars, monVars >>

\* get_global_statistics in worker w: recomputed under the lock, a copy returned
WorkerStatistics(w) ==
    /\ wpc[w] = "ready"
    /\ LET stats == UpdateGlobalStats(inst[w].workflows) IN
       /\ inst' = [inst EXCEPT ![w].global_stats = stats]
       /\ reported' = [reported EXCEPT ![w] = [returned |-> TRUE, stats |-> stats]]
    /\ UNCHANGED << shared, wpc, saved, ops >>
    /\ UNCHANGED << engineVars, storeVars, ciVars, fixVars, monVars >>

\* the state file when the workers start: any workflows, written with the
\* statistics of a fresh PipelineState
InitWorkers ==
    /\ EngineIdle /\ StoreIdle /\ CiIdle /\ FixIdle /\ MonIdle
    /\ shared \in { [workflows |-> wf, global_stats |-> GlobalStatistics] :
                       wf \in [Issues -> Records \cup {NoRecord}] }
    /\ inst = [w \in Workers |-> NoInstance]
    /\ wpc = [w \in Workers |-> "down"]
    /\ saved = [w \in Workers |-> NoRecord]
    /\ reported = [w \in Workers |-> NoReport]
    /\ ops = [w \in Workers |-> 0]

NextWorkers ==
    \/ \E w \in Workers, config \in BOOLEAN : WorkerConstruct(w, config)
    \/ \E w \in Workers : WorkerConstructSave(w)
    \/ \E w \in Workers, rec \in Records : WorkerSave(w, rec)
    \/ \E w \in Workers, issue \in Issues : WorkerDelete(w, issue)
    \/ \E w \in Workers : WorkerCleanup(w)
    \/ \E w \in Workers : WorkerStatistics(w)

SpecWorkers == InitWorkers /\ [][NextWorkers]_vars

\* ------------------------------------------------------------- properties
Stored(d) == storeKind = "state_manager" /\ d # NoSession

\* C1: in every reachable state iterationCount never exceeds maxIterations,
\* in the engine's session and in what the store holds.
C1_IterationBound ==
    /\ session # NoSession => session.iteration_count <= session.max_iterations
    /\ smWorkflows # NoSession => smWorkflows.iteration_count <= smWorkflows.max_iterations
    /\ file # NoSession => file.iteration_count <= file.max_iterations

\* C2: once the Fix-implementation handler has run with iterationCount >=
\* maxIterations, MAX_ITERATIONS_REACHED is the persisted currentState.
C2_MaxIterationsPersisted ==
    (lastEvent = "fix_max" /\ storeKind = "state_manager") =>
        /\ smWorkflows.current_state = WorkflowState.MAX_ITERATIONS_REACHED
        /\ file.current_state = WorkflowState.MAX_ITERATIONS_REACHED

\* C3: a call whose session was created at PENDING never ends in the
\* "No handler for stage" outcome.
C3_NoDispatchWithoutHandler ==
    origin = "created" => result.error # "no_handler"

\* C4: whenever ProcessIssue has returned, the persisted session equals the
\* engine's session in every field.
C4_PersistedEqualsMemory ==
    (pc = "idle" /\ result.outcome = "returned" /\ storeKind = "state_manager"
        /\ session # NoSession) =>
        /\ smWorkflows # NoSession /\ FromDict(smWorkflows) = session
        /\ file # NoSession /\ FromDict(file) = session

\* C5: after a stage handler has reported failure, currentState in memory,
\* in the returned result and in the store is the state the handler was
\* invoked at.
C5_FailureKeepsState ==
    (pc = "idle" /\ result.outcome = "returned" /\ failedAt # "none"
        /\ session # NoSession) =>
        /\ session.current_state = failedAt
        /\ result.current_state = WorkflowState[failedAt]
        /\ Stored(smWorkflows) => smWorkflows.current_state = WorkflowState[failedAt]

\* C6: a ProcessIssue call that reloads the session from the store after a
\* stage failure at state X starts at X: the loaded session is in X and the
\* first handler the call invokes is the handler for X.
C6_ResumeAtFailedStage ==
    (origin = "loaded" /\ prevFailedAt # "none") =>
        IF invoked = <<>>
        THEN pc = "loop" /\ session.current_state = prevFailedAt
        ELSE invoked[1] = StageHandlers[prevFailedAt]

C6_Witness ==
    /\ origin = "loaded" /\ prevFailedAt = "IMPLEMENTING"
    /\ invoked # <<>> /\ restarts = 1 /\ pc = "idle"

\* C7: across all ProcessIssue calls for the issue, at most one pull request
\* is created for the session's branch.
C7_SinglePullRequest == prCreated <= 1

ApproveNoChanges(responses) ==
    /\ AgentReviewDecision.APPROVE \in Range(responses)
    /\ AgentReviewDecision.REQUEST_CHANGES \notin Range(responses)

\* C8: when no reviewer returned REQUEST_CHANGES and at least one returned
\* APPROVE, the Review stage succeeds with next state REVIEW_PASSED.
C8_ApproveAdvances ==
    (lastReview.ran /\ ApproveNoChanges(lastReview.responses)) =>
        lastReview.next = "REVIEW_PASSED"

AllComment(responses) ==
    responses # <<>> /\ Range(responses) = {AgentReviewDecision.COMMENT}

\* C9: when every reviewer returned COMMENT, the Review stage does not select
\* NEEDS_FIXES as the next state.
C9_CommentNeverNeedsFixes ==
    (lastReview.ran /\ AllComment(lastReview.responses)) =>
        /\ lastReview.next # "NEEDS_FIXES"
        /\ lastEvent = "review" => session.current_state # "NEEDS_FIXES"

C9_Witness ==
    /\ lastEvent = "review" /\ lastReview.ran
    /\ AllComment(lastReview.responses) /\ Len(lastReview.responses) = 2

\* C10: when some reviewer returned REQUEST_CHANGES, the merged decision is
\* REQUEST_CHANGES and the Review stage moves the session to NEEDS_FIXES.
C10_RequestChangesWins ==
    (lastReview.ran /\ AgentReviewDecision.REQUEST_CHANGES \in Range(lastReview.responses)) =>
        /\ lastReview.merged = AgentReviewDecision.REQUEST_CHANGES
        /\ lastReview.next = "NEEDS_FIXES"

\* C11: every save of a session through the store returns; no save leaves the
\* caller blocked with the store's lock held.
C11_EverySaveReturns ==
    storeKind = "state_manager" => (pc # "blocked" /\ ~lockHeld)

\* C12: after a crash at any point of a write, the state file holds either
\* the complete contents it had when the write began or the complete new
\* document.
C12_CrashLeavesOldOrNew ==
    storeEvent = "crash_in_write" =>
        \/ disk.state = prevFile
        \/ disk.state = [exists |-> TRUE, data |-> newDoc]

C12_Witness ==
    /\ storeEvent = "crash_in_write"
    /\ prevFile.exists /\ prevFile.data # newDoc
    /\ disk.tmp.exists
    /\ Len(disk.tmp.data) > 0 /\ Len(disk.tmp.data) < Len(newDoc)

\* a file whose text json.load rejects, or whose parsed value is not a
\* pipeline-state document
Corrupt(f) ==
    /\ f.exists
    /\ \/ ~JsonLoad(f.data).ok
       \/ ~JsonLoad(f.data).isDict
       \/ Field(f.data, "workflows", "{}") \notin DictTexts
       \/ Field(f.data, "issues", "{}") = NotADictText

\* C13: whenever the state file is corrupt on read, unparseable or parsed but
\* not a valid document, the store backs it up and starts from a fresh empty
\* state, and does not raise.
C13_CorruptReadRecovered ==
    (storeEvent \in LoadOutcomes /\ Corrupt(loadedFrom)) =>
        /\ storeEvent = "backed_up"
        /\ disk.backup = loadedFrom
        /\ smState.workflows = "{}"

\* the handler that ran in this step was Implementation and its agent
\* returned SUCCESS or PARTIAL
ImplementationSucceeded ==
    /\ lastEvent' = "implementation"
    /\ Len(session'.session_transcript) = Len(session.session_transcript) + 1
    /\ session'.session_transcript[Len(session'.session_transcript)]
         \in {<<"IMPLEMENTATION", "success">>, <<"IMPLEMENTATION", "partial">>}

\* C20: a handler step changes iterationCount only if it is the
\* Implementation handler, and every Implementation call whose agent returned
\* SUCCESS or PARTIAL raises it by exactly 1.
C20_IterationCountFrame ==
    [][ pc = "loop" =>
          /\ session'.iteration_count # session.iteration_count =>
                lastEvent' = "implementation"
          /\ ImplementationSucceeded =>
                session'.iteration_count = session.iteration_count + 1 ]_vars

\* the log of a failed job matches none of the patterns the detector knows
Unmatched(failure) ==
    /\ \A i \in 1..Len(failure.log) : ~IsLintLine(failure.log[i])
    /\ ~(LogHas(failure.log, "sphinx-build") /\ LogHas(failure.log, "error"))

\* C19: CI-failure detection yields at least one FeedbackItem for every failed
\* job, and for a log matching no known pattern a generic item at High
\* priority.
C19_NoFailureDropped ==
    ciBy = "detector" =>
        /\ Len(ciItems) >= 1
        /\ Unmatched(ciFailure) =>
              \E i \in 1..Len(ciItems) : ciItems[i].priority = FixPriority.HIGH

\* C17: RunAutoFixCycle returns only when a detection round found no feedback
\* or when maxIterations iterations have been run; after an iteration that
\* found feedback it goes on to a new round while iterations remain.
C17_ReturnsOnlyCleanOrExhausted ==
    /\ (fixPc = "idle" /\ fixLast.ran) =>
          (fixLast.feedback = <<>> \/ fixIter = fixMax)
    /\ (fixLast.ran /\ fixLast.feedback # <<>> /\ fixIter < fixMax) =>
          fixPc = "running"

\* C18: an iteration whose fixes were committed and whose push then failed
\* still counts as successful; the cycle does not return a failed result for it.
C18_PushFailureKeepsSuccess ==
    (fixLast.committed /\ fixLast.pushFailed) =>
        /\ fixLast.success
        /\ fixLast.returned \in {"none", "max_iterations"}
        /\ fixResult.error_message # "Failed to commit fixes"

C18_Witness ==
    /\ fixLast.committed /\ fixLast.pushFailed /\ ~fixLast.pushed
    /\ fixPc = "running" /\ fixIter = 1 /\ fixMax = 2

\* C14: a cycle that processes a PR whose CI is failing and whose
\* autoFixAttempts is 3 or more flags it as needing human intervention and
\* removes it from the tracked set.
C14_CapStopsTracking ==
    (monEvent.kind = "process" /\ monEvent.ci = "failing"
        /\ monEvent.before >= MaxAutoFixAttempts) =>
        /\ monEvent.result.status = "needs_human_intervention"
        /\ monEvent.pr \notin Tracked(monitored)

\* C15: at the end of every monitoring cycle no PR that is still tracked has
\* readyForHuman = true.
C15_NoTrackedReadyForHuman ==
    monEvent.kind = "cycle_end" =>
        \A i \in 1..Len(monitored) : ~monitored[i].ready_for_human

\* C16: autoFixAttempts of a tracked PR never exceeds 3, an auto-fix cycle is
\* delegated only for a PR whose autoFixAttempts is below 3, and each
\* delegated cycle raises the counter by exactly 1.
C16_AttemptsCapped ==
    /\ \A i \in 1..Len(monitored) :
          monitored[i].auto_fix_attempts <= MaxAutoFixAttempts
    /\ (monEvent.kind = "process" /\ monEvent.delegated) =>
          /\ monEvent.before < MaxAutoFixAttempts
          /\ monEvent.pr \in Tracked(monitored)
          /\ StatusOf(monitored, monEvent.pr).auto_fix_attempts = monEvent.before + 1

C16_Witness ==
    /\ monEvent.kind = "process" /\ monEvent.delegated
    /\ monEvent.before = MaxAutoFixAttempts - 1
    /\ StatusOf(monitored, monEvent.pr).auto_fix_attempts = MaxAutoFixAttempts

\* C27: when fetching the issue fails with a platform error, ProcessIssue
\* returns a result with success = false whose error is the platform error;
\* it does not raise to the caller.
C27_FetchFailureReturned ==
    (lastEvent = "process_issue" /\ pc = "idle") =>
        /\ result.outcome = "returned"
        /\ ~result.success
        /\ result.error = "platform"

\* C24: when the validation agent returns NEEDS_CLARIFICATION on a call with
\* dryRun = false, in automated as in interactive mode, a clarification
\* request has been posted on the issue, the stage is reported as failed and
\* the session is left in PENDING.
C24_ClarificationPosted ==
    (lastEvent = "validation" /\ ~dryRun
        /\ validatorSays = "needs_clarification") =>
        /\ platform.commented
        /\ pc = "idle" /\ ~result.success /\ failedAt = "PENDING"
        /\ session.current_state = "PENDING"

\* C25: when the validation agent's answer is INVALID, on a call with
\* autoMode = true and dryRun = true as on any other, ProcessIssue returns
\* success = false with a validation-failed error and the session stays in
\* PENDING.
C25_InvalidFailsValidation ==
    (lastEvent = "validation" /\ validatorSays = "invalid") =>
        /\ pc = "idle" /\ result.outcome = "returned"
        /\ ~result.success /\ result.error = "validation_failed"
        /\ session.current_state = "PENDING"

\* C26: no step of a ProcessIssue call made with dryRun = true changes the
\* session store, in memory or on file, or creates a label, a comment or a
\* pull request on the platform.
C26_DryRunChangesNothing ==
    [][ (dryRun' /\ lastEvent' # "restart") =>
            UNCHANGED << smWorkflows, file, platform, prCreated >> ]_vars

\* the responses of the reviewers that succeeded, in the reviewers' order
Succeeded(outs) ==
    SelectSeq(outs, LAMBDA o : o \notin {"agent_error", "other_error"})

\* C28: when a reviewer of the review fan-out fails with an error of any
\* kind, every other reviewer is still run and the decision is merged over
\* the responses of the reviewers that succeeded.
C28_ReviewerFailureTolerated ==
    (fanOut.ran /\ Succeeded(fanOut.outs) # fanOut.outs) =>
        /\ fanOut.reached = Len(fanOut.outs)
        /\ fanOut.returned
        /\ lastReview.ran /\ lastReview.responses = Succeeded(fanOut.outs)

\* C22: a ProcessIssue call that loads a session in IMPLEMENTING whose
\* iterationCount equals maxIterations returns success = false with a
\* maximum-iterations error at its first step and leaves the session in
\* IMPLEMENTING.
C22_CapStopsImplementation ==
    [][ (pc = "loop" /\ origin = "loaded" /\ invoked = <<>>
            /\ session.current_state = "IMPLEMENTING"
            /\ session.iteration_count = session.max_iterations) =>
          /\ pc' = "idle" /\ result'.outcome = "returned"
          /\ ~result'.success /\ result'.error = "max_iterations"
          /\ session'.current_state = "IMPLEMENTING" ]_vars

\* C21: over the whole life of a session, across ProcessIssue calls and
\* counting the calls in which the agent returns FAILED, the implementation
\* agent is invoked at most maxIterations times.
C21_ImplementationCallsBounded ==
    session # NoSession => implCalls <= session.max_iterations

\* the last step was a stage handler that succeeded and whose transition
\* was stored
StageSucceeded ==
    /\ lastEvent \in {"validation", "worktree", "implementation", "review",
                      "fix_loop", "finalization"}
    /\ failedAt = "none" /\ pc # "blocked"

\* C29: in non-automated mode the engine requests confirmation after every
\* successful stage transition, before the next handler is invoked; in
\* automated mode it never requests confirmation.
C29_ConfirmationIffInteractive ==
    /\ autoMode => ~asked
    /\ (StageSucceeded /\ ~autoMode) => asked

\* C23: every ProcessIssue call in automated mode terminates: once inside
\* the stage loop, the call eventually returns to its caller.
C23_AutomatedCallTerminates ==
    (pc = "loop" /\ autoMode) ~> (pc = "idle")

C38_NoSuccessWithError ==
    result.outcome = "returned" => ~(result.success /\ result.error # "none")

\* the edges of the workflow's transition graph
TransitionEdges ==
    { <<"PENDING", "VALIDATED">>, <<"VALIDATED", "IMPLEMENTING">>,
      <<"IMPLEMENTING", "IMPLEMENTED">>, <<"IMPLEMENTED", "REVIEW_PASSED">>,
      <<"IMPLEMENTED", "NEEDS_FIXES">>, <<"NEEDS_FIXES", "IMPLEMENTING">>,
      <<"NEEDS_FIXES", "MAX_ITERATIONS_REACHED">>,
      <<"REVIEW_PASSED", "READY_FOR_HUMAN">> }

C37_CommittedFixesReturned ==
    (fixPc = "idle" /\ fixCalls > 0 /\ fixLast.committed) =>
        /\ fixResult.success
        /\ fixResult.fixes_applied = fixLast.applied.fixes_applied

\* C39: processing a tracked PR whose CI status is pending or unknown never
\* reports that it needs human intervention; the PR stays tracked and its
\* auto_fix_attempts is what it was before.
C39_UnknownCiOnlyWaits ==
    (monEvent.kind = "process" /\ monEvent.ci \in {"pending", "unknown"}) =>
        /\ monEvent.result.status = "waiting"
        /\ ~monEvent.removed
        /\ monEvent.pr \in Tracked(monitored)
        /\ StatusOf(monitored, monEvent.pr).auto_fix_attempts = monEvent.before

\* C31: in an iteration that found feedback every fix group is processed: the
\* fixes of each group whose fix succeeded are in the fixes_applied of the
\* iteration's result, whatever the groups before it did, and a group that
\* failed or raised contributes none.
C31_EveryGroupProcessed ==
    (fixLast.ran /\ fixLast.feedback # <<>>) =>
        \A i \in 1..Len(fixEnv.groups) :
            (fixEnv.groups[i] \in {"fixed", "fixed_no_files", "missing_file"})
                <=> (\E j \in 1..Len(fixLast.applied.fixes_applied) :
                        fixLast.applied.fixes_applied[j] = i)

C31_Witness ==
    /\ fixPc = "idle"
    /\ fixEnv.groups = <<"raises", "fixed">>
    /\ fixLast.returned = "fix_failed"
    /\ fixResult.fixes_applied = <<2>>
    /\ fixResult.error_message = "validation errors"

\* C32: a round in which detection returns no feedback item ends the call:
\* run_auto_fix_cycle returns success = true with empty fixes_applied and the
\* round commits and pushes nothing.
C32_NoFeedbackReturnsClean ==
    (fixLast.ran /\ DetectAllFeedback(fixEnv.dets) = <<>>) =>
        /\ fixPc = "idle"
        /\ fixLast.returned = "no_feedback"
        /\ fixResult.success
        /\ fixResult.fixes_applied = <<>>
        /\ ~fixLast.committed /\ ~fixLast.pushed

C32_Witness ==
    /\ fixPc = "idle" /\ fixIter = 1
    /\ fixEnv.dets = << [raised |-> TRUE, items |-> <<>>], [raised |-> FALSE, items |-> <<>>] >>
    /\ fixResult.success
    /\ fixResult.commit_message = "No fixes needed"

\* C33: when a detector raises during a detection round the other detectors
\* still run: every item of every detector that did not raise is in the
\* round's feedback list, and the list holds nothing else.
C33_RaisingDetectorSkipped ==
    fixLast.ran =>
        /\ \A d \in 1..Len(fixEnv.dets) :
              ~fixEnv.dets[d].raised =>
                  \A k \in 1..Len(fixEnv.dets[d].items) :
                      \E j \in 1..Len(fixLast.feedback) :
                          fixLast.feedback[j] = fixEnv.dets[d].items[k]
        /\ Len(fixLast.feedback) =
              Len(fixEnv.dets[1].items) + Len(fixEnv.dets[2].items)

C33_Witness ==
    /\ fixLast.ran
    /\ fixEnv.dets[1].raised
    /\ ~fixEnv.dets[2].raised
    /\ Len(fixEnv.dets[2].items) = 1
    /\ fixLast.feedback = fixEnv.dets[2].items
    /\ fixLast.applied.fixes_applied # <<>>

\* the statistics st count the sessions of wf: every stored session once in
\* the total and once in the class of its current state
CountsSessions(st, wf) ==
    /\ st.total_workflows = Cardinality(Keyed(wf))
    /\ st.total_workflows =
          st.active_workflows + st.completed_workflows + st.failed_workflows
    /\ st.completed_workflows =
          Cardinality({i \in Keyed(wf) : wf[i].current_state \in {"completed", "merged"}})
    /\ st.failed_workflows =
          Cardinality({i \in Keyed(wf) : wf[i].current_state \in FailedStates})

\* C34: the global statistics a StateManager reports, and the ones it has
\* recomputed in a save, delete or cleanup, have total = number of stored
\* sessions = active + completed + failed, each session counted by its
\* current state.
C34_StatisticsCountSessions ==
    \A w \in Workers :
        /\ (wpc[w] = "ready" /\ reported[w].returned) =>
               CountsSessions(reported[w].stats, inst[w].workflows)
        /\ wpc[w] = "blocked" =>
               CountsSessions(inst[w].global_stats, inst[w].workflows)

C34_Witness ==
    /\ wpc[1] = "ready" /\ ops[1] >= 1
    /\ reported[1].returned
    /\ reported[1].stats.total_workflows = 2
    /\ reported[1].stats.completed_workflows = 1
    /\ reported[1].stats.failed_workflows = 1
    /\ wpc[2] = "blocked"
    /\ saved[2].current_state = "pending"
    /\ inst[2].global_stats.total_workflows = 2
    /\ inst[2].global_stats.active_workflows = 1

====
